---- MODULE Spec2Model ----
(***************************************************************************)
(* EcoSense AI analysis engine: ElectricityAnalyzer / WaterAnalyzer and    *)
(* the helpers of utils.py they call.                                      *)
(*                                                                         *)
(* Numbers.  A consumption value is an integer count of eighths of a unit  *)
(* (value 1 is 0.125 kWh or gallons), so that every sum, percentile        *)
(* interpolation and comparison of the binary floating point code is       *)
(* exact.  A percentile threshold is kept times 100 (in eighths), a        *)
(* rounded figure (round(x, 2)) is an integer count of hundredths.  The    *)
(* input tables below are chosen so that the floating point results of     *)
(* the code (means, percentages, diff_percent, rounding ties) agree with   *)
(* the exact arithmetic used here.                                         *)
(***************************************************************************)
EXTENDS Integers, Sequences, FiniteSets

VARIABLES kind, threshold_percentile, data, threshold, result, anomalies,
          last_call, pc, locals, session_data, shared

vars == <<kind, threshold_percentile, data, threshold, result, anomalies,
          last_call, pc, locals, session_data, shared>>

\* The table object the caller holds (st.session_state.<resource>_data, None
\* when none was assigned) and whether self.data is that very object.
caller == <<session_data, shared>>

(***************************************************************************)
(* Bounds of the model and constants of the program.                       *)
(***************************************************************************)
MaxRows == 3
MaxBlocks == 3
MaxTrendLen == 4
MaxStepRows == 2
MaxOrderRows == 3

Unit == 8
NightIdleHigh == 10
NightIdleMedium == 5
LeakRiskCount == 5
TrendPercent == 5

NIGHT_TIME_HOURS == {22, 23, 0, 1, 2, 3, 4, 5}

Kinds == {"electricity", "water"}
Facilities == {"A", "B"}

\* Python's None, for self.data, self.threshold and a result not yet returned.
None == [tag |-> "None"]

(***************************************************************************)
(* Arithmetic helpers.                                                     *)
(***************************************************************************)
Range(s) == {s[i] : i \in 1..Len(s)}

\* The sum of the entries lo..hi of a series, by halving the range.
RECURSIVE SumFromTo(_, _, _)
SumFromTo(s, lo, hi) ==
    IF lo > hi THEN 0
    ELSE IF lo = hi THEN s[lo]
    ELSE LET mid == (lo + hi) \div 2
         IN  SumFromTo(s, lo, mid) + SumFromTo(s, mid + 1, hi)

SumSeq(s) == SumFromTo(s, 1, Len(s))

SumSq(s) == SumSeq([i \in 1..Len(s) |-> s[i] * s[i]])

Sign(x) == IF x > 0 THEN 1 ELSE IF x < 0 THEN -1 ELSE 0

SetMax(S) == CHOOSE x \in S : \A y \in S : y <= x

\* The greatest common divisor of two naturals, and of the values of a series.
RECURSIVE Gcd(_, _)
Gcd(a, b) == IF b = 0 THEN a ELSE Gcd(b, a % b)

RECURSIVE SetGcd(_)
SetGcd(S) == IF S = {} THEN 0
             ELSE LET x == CHOOSE y \in S : TRUE IN Gcd(x, SetGcd(S \ {x}))

SeqGcd(s) == SetGcd(Range(s))

\* Series.max() of a value column.
SeriesMax(s) == SetMax(Range(s))

\* round(num / den, 2) for num >= 0, den > 0, as a count of hundredths: the
\* nearest hundredth, an exact tie going to the even one.
Round2(num, den) ==
    LET q == (100 * num) \div den
        r == (100 * num) % den
    IN  IF 2 * r < den THEN q
        ELSE IF 2 * r > den THEN q + 1
        ELSE IF q % 2 = 0 THEN q ELSE q + 1

\* The rows of a frame selected by a boolean mask: data[mask].
RECURSIVE SelectFromTo(_, _, _, _)
SelectFromTo(rows, mask, lo, hi) ==
    IF lo > hi THEN << >>
    ELSE IF lo = hi THEN (IF mask[lo] THEN <<rows[lo]>> ELSE << >>)
    ELSE LET mid == (lo + hi) \div 2
         IN  SelectFromTo(rows, mask, lo, mid) \o SelectFromTo(rows, mask, mid + 1, hi)

SelectRows(rows, mask) == SelectFromTo(rows, mask, 1, Len(rows))

Column(rows, col) == [i \in 1..Len(rows) |-> rows[i][col]]

\* Number of TRUE entries of a boolean column: Series.sum().
CountTrue(col) == Cardinality({i \in 1..Len(col) : col[i]})

(***************************************************************************)
(* Frames.  A DataFrame is its set of column names and its rows; a row     *)
(* holds a field for every column the model knows, and the field means     *)
(* something only when the column is in cols.  date_hour is the hour of    *)
(* day of the row's 'date' (0 for a date without a time of day).           *)
(***************************************************************************)
ValueColumn == "value"
RawColumns == {"date", "facility", ValueColumn}

NaN == [tag |-> "nan"]
Unset == [tag |-> "unset"]

Frame(cols, rows) == [tag |-> "frame", cols |-> cols, rows |-> rows]

RawRow(f, v, dh, h) ==
    [facility |-> f, value |-> v, date_hour |-> dh, hour |-> h,
     is_anomaly |-> FALSE, anomaly_severity |-> Unset, is_night_time |-> FALSE]

Values(rows) == Column(rows, "value")

(***************************************************************************)
(* utils.detect_anomalies                                                  *)
(***************************************************************************)
\* The k-th smallest entry (k in 1..Len(s)) of a series.
SortedAt(s, k) ==
    CHOOSE v \in Range(s) :
        /\ Cardinality({i \in 1..Len(s) : s[i] < v}) < k
        /\ k <= Cardinality({i \in 1..Len(s) : s[i] <= v})

\* Mutant of Quantile100: the series is read in row order, not sorted.
Quantile100Unsorted(s, p) ==
    LET pos == (Len(s) - 1) * p
        lo == pos \div 100
        frac == pos % 100
        a == s[lo + 1]
    IN  IF frac = 0 THEN 100 * a
        ELSE 100 * a + (s[lo + 2] - a) * frac

\* Series.quantile(p / 100), linear interpolation, times 100: position
\* (n - 1) * p / 100 in the sorted series, interpolated between its neighbours.
Quantile100(s, p) ==
    LET pos == (Len(s) - 1) * p
        lo == pos \div 100
        frac == pos % 100
        a == SortedAt(s, lo + 1)
    IN  IF frac = 0 THEN 100 * a
        ELSE 100 * a + (SortedAt(s, lo + 2) - a) * frac

\* Mutant of AboveThreshold: a value equal to the threshold is flagged.
AboveOrAtThreshold(v, thr100) == 100 * v >= thr100

\* data[column] > threshold, for one value.
AboveThreshold(v, thr100) == 100 * v > thr100

\* (v - mean) / std with the sample standard deviation (ddof = 1).  With n
\* values of sum S and sum of squares Q: v - mean = (n v - S) / n and
\* std^2 = (n Q - S^2) / (n (n - 1)).  A finite score is kept as its sign and
\* its square sqnum / sqden.  std is NaN for n = 1 and 0 for a constant
\* series: x / NaN and 0 / 0 are NaN, x / 0 is infinite.
\* The score does not change when every value is divided by a common factor,
\* so the sums are taken over the values divided by their greatest one.
SeverityOf(v, n, sum, ssq) ==
    LET dev == n * v - sum
    IN  IF n < 2 THEN NaN
        ELSE IF ssq = 0
             THEN IF dev = 0 THEN NaN ELSE [tag |-> "inf", sgn |-> Sign(dev)]
             ELSE [tag |-> "num", sgn |-> Sign(dev),
                   sqnum |-> dev * dev * (n - 1), sqden |-> n * ssq]

\* The anomaly_severity column of a value series.
Severity(s) ==
    LET n == Len(s)
        g == IF SeqGcd(s) = 0 THEN 1 ELSE SeqGcd(s)
        t == [i \in 1..n |-> s[i] \div g]
        sum == SumSeq(t)
        ssq == n * SumSq(t) - sum * sum
        col == [i \in 1..n |-> SeverityOf(t[i], n, sum, ssq)]
    IN  col

\* Mutant of detect_anomalies: on a table that already carries is_anomaly the
\* threshold is the percentile of the records not flagged so far.
detect_anomalies_of_unflagged(frame, p) ==
    IF ValueColumn \notin frame.cols
    THEN [raised |-> TRUE, data |-> frame, threshold |-> None]
    ELSE LET s == Values(frame.rows)
             rest == SelectRows(frame.rows,
                                [i \in 1..Len(frame.rows) |-> ~frame.rows[i].is_anomaly])
             thr == IF "is_anomaly" \in frame.cols /\ rest # << >>
                    THEN Quantile100(Values(rest), p)
                    ELSE Quantile100(s, p)
             sev == Severity(s)
         IN  [raised |-> FALSE,
              data |-> Frame(frame.cols \cup {"is_anomaly", "anomaly_severity"},
                             [i \in 1..Len(frame.rows) |->
                                 [frame.rows[i] EXCEPT
                                     !.is_anomaly = AboveThreshold(s[i], thr),
                                     !.anomaly_severity = sev[i]]]),
              threshold |-> [tag |-> "num", x100 |-> thr]]

\* detect_anomalies(data, column, threshold_percentile) on a non-empty frame:
\* KeyError when the column is missing, else the flagged frame and threshold.
detect_anomalies(frame, p) ==
    IF ValueColumn \notin frame.cols
    THEN [raised |-> TRUE, data |-> frame, threshold |-> None]
    ELSE LET s == Values(frame.rows)
             thr == Quantile100(s, p)
             sev == Severity(s)
         IN  [raised |-> FALSE,
              data |-> Frame(frame.cols \cup {"is_anomaly", "anomaly_severity"},
                             [i \in 1..Len(frame.rows) |->
                                 [frame.rows[i] EXCEPT
                                     !.is_anomaly = AboveThreshold(s[i], thr),
                                     !.anomaly_severity = sev[i]]]),
              threshold |-> [tag |-> "num", x100 |-> thr]]

(***************************************************************************)
(* utils.identify_night_time_usage                                         *)
(***************************************************************************)
\* Mutant of IsNightHour: the window read as 22:00 to 05:00, hour 5 left out.
IsNightHourBefore5(h) == h >= 22 \/ h < 5

IsNightHour(h) == h \in NIGHT_TIME_HOURS

\* Mutant of identify_night_time_usage: an 'hour' column the table already
\* has is kept and classified, the 'date' is used only without one.
identify_night_time_usage_keeps_hour(frame) ==
    IF "date" \notin frame.cols
    THEN [raised |-> TRUE, data |-> frame]
    ELSE [raised |-> FALSE,
          data |-> Frame(frame.cols \cup {"hour", "is_night_time"},
                         [i \in 1..Len(frame.rows) |->
                             LET h == IF "hour" \in frame.cols THEN frame.rows[i].hour
                                      ELSE frame.rows[i].date_hour
                             IN  [frame.rows[i] EXCEPT
                                     !.hour = h, !.is_night_time = IsNightHour(h)]])]

\* Mutant of identify_night_time_usage: the table comes back as it was, no
\* hour and no is_night_time column attached.
identify_night_time_usage_skipped(frame) ==
    IF "date" \notin frame.cols
    THEN [raised |-> TRUE, data |-> frame]
    ELSE [raised |-> FALSE, data |-> frame]

identify_night_time_usage(frame) ==
    IF "date" \notin frame.cols
    THEN [raised |-> TRUE, data |-> frame]
    ELSE [raised |-> FALSE,
          data |-> Frame(frame.cols \cup {"hour", "is_night_time"},
                         [i \in 1..Len(frame.rows) |->
                             [frame.rows[i] EXCEPT
                                 !.hour = frame.rows[i].date_hour,
                                 !.is_night_time = IsNightHour(frame.rows[i].date_hour)]])]

(***************************************************************************)
(* utils.get_trend_direction                                               *)
(***************************************************************************)
\* Mutant of FirstHalf: the midpoint rounded up, so that for an odd length
\* the middle value is in both halves.
FirstHalfRoundedUp(s) == SubSeq(s, 1, (Len(s) + 1) \div 2)

\* series[:len(series)//2] and series[len(series)//2:]
FirstHalf(s) == SubSeq(s, 1, Len(s) \div 2)
SecondHalf(s) == SubSeq(s, Len(s) \div 2 + 1, Len(s))

\* diff_percent compared with a bound b, exactly: with first = S1 / n1 and
\* second = S2 / n2, diff_percent = 100 (S2 n1 - S1 n2) / (S1 n2), and 0 when
\* first = 0.  DiffCmp is the sign of diff_percent - b.
\* Mutant of DiffCmp: no guard on a zero first-half mean; x / 0 is infinite
\* with the sign of x, and 0 / 0 is NaN, which compares false with any bound.
DiffCmpUnguarded(s, b) ==
    LET S1 == SumSeq(FirstHalf(s))
        n1 == Len(FirstHalf(s))
        S2 == SumSeq(SecondHalf(s))
        n2 == Len(SecondHalf(s))
    IN  IF S1 = 0 THEN Sign(S2)
        ELSE Sign(S1) * Sign(100 * (S2 * n1 - S1 * n2) - b * S1 * n2)

DiffCmp(s, b) ==
    LET S1 == SumSeq(FirstHalf(s))
        n1 == Len(FirstHalf(s))
        S2 == SumSeq(SecondHalf(s))
        n2 == Len(SecondHalf(s))
    IN  IF S1 = 0 THEN Sign(0 - b)
        ELSE Sign(S1) * Sign(100 * (S2 * n1 - S1 * n2) - b * S1 * n2)

\* Mutant of get_trend_direction: the values are sorted ascending before
\* the split.
get_trend_direction_sorted(s) ==
    LET sorted == [k \in 1..Len(s) |-> SortedAt(s, k)]
    IN  IF Len(s) < 2 THEN "insufficient_data"
        ELSE IF DiffCmp(sorted, TrendPercent) > 0 THEN "increasing"
        ELSE IF DiffCmp(sorted, 0 - TrendPercent) < 0 THEN "decreasing"
        ELSE "stable"

\* Mutant of get_trend_direction: the 5 percent bounds taken as inclusive.
get_trend_direction_inclusive(s) ==
    IF Len(s) < 2 THEN "insufficient_data"
    ELSE IF DiffCmp(s, TrendPercent) >= 0 THEN "increasing"
    ELSE IF DiffCmp(s, 0 - TrendPercent) <= 0 THEN "decreasing"
    ELSE "stable"

get_trend_direction(s) ==
    IF Len(s) < 2 THEN "insufficient_data"
    ELSE IF DiffCmp(s, TrendPercent) > 0 THEN "increasing"
    ELSE IF DiffCmp(s, 0 - TrendPercent) < 0 THEN "decreasing"
    ELSE "stable"

(***************************************************************************)
(* ElectricityAnalyzer / WaterAnalyzer helpers, on the flagged frame.      *)
(***************************************************************************)
Num(h) == [tag |-> "num", h |-> h]

\* Series.unique() of the facility column, as a set.
FacilitiesOf(rows) == {rows[i].facility : i \in 1..Len(rows)}

\* Mutant of FacilityRows: the facility filter is dropped.
FacilityRowsUnfiltered(rows, f) == rows

FacilityRows(rows, f) ==
    SelectRows(rows, [i \in 1..Len(rows) |-> rows[i].facility = f])

\* Mutant of FacilityRollup: the anomaly count is the facility's row count.
FacilityRollupCountsRows(frows) ==
    [total |-> Round2(SumSeq(Values(frows)), Unit),
     avg |-> Round2(SumSeq(Values(frows)), Unit * Len(frows)),
     anomalies |-> Len(frows)]

\* _facility_wise_analysis: facility -> {total, avg, anomalies}.
FacilityRollup(frows) ==
    [total |-> Round2(SumSeq(Values(frows)), Unit),
     avg |-> Round2(SumSeq(Values(frows)), Unit * Len(frows)),
     anomalies |-> CountTrue(Column(frows, "is_anomaly"))]

facility_wise_analysis(rows) ==
    [f \in FacilitiesOf(rows) |-> FacilityRollup(FacilityRows(rows, f))]

NightRows(rows) == SelectRows(rows, Column(rows, "is_night_time"))

\* Mutant of HighNightUsage: a night record at the threshold counts too.
HighNightUsageInclusive(rows, thr100) ==
    SelectRows(NightRows(rows),
               [i \in 1..Len(NightRows(rows)) |-> 100 * NightRows(rows)[i].value >= thr100])

\* Mutant of HighNightUsage: every night record counts, whatever its value.
HighNightUsageAnyValue(rows, thr100) == NightRows(rows)

\* night_data[night_data[value] > self.threshold]
HighNightUsage(rows, thr100) ==
    LET night == NightRows(rows)
    IN  SelectRows(night, [i \in 1..Len(night) |-> AboveThreshold(night[i].value, thr100)])

\* Mutant of IssueSeverity: the breakpoints taken as inclusive.
IssueSeverityInclusive(count) ==
    IF count >= NightIdleHigh THEN "HIGH"
    ELSE IF count >= NightIdleMedium THEN "MEDIUM"
    ELSE "LOW"

IssueSeverity(count) ==
    IF count > NightIdleHigh THEN "HIGH"
    ELSE IF count > NightIdleMedium THEN "MEDIUM"
    ELSE "LOW"

\* round(night_sum / total * 100, 2); 0 / 0 is NaN.
NightPercentage(rows) ==
    LET total == SumSeq(Values(rows))
        night == SumSeq(Values(NightRows(rows)))
    IN  IF total = 0 THEN NaN ELSE Num(Round2(100 * night, total))

\* ElectricityAnalyzer._detect_night_idle
detect_night_idle(rows, thr100) ==
    [high_night_consumption_count |-> Len(HighNightUsage(rows, thr100)),
     night_consumption_percentage |-> NightPercentage(rows),
     issue_severity |-> IssueSeverity(Len(HighNightUsage(rows, thr100)))]

AnomalyRows(rows) == SelectRows(rows, Column(rows, "is_anomaly"))

\* Mutant of LeakRiskFacilities: 5 anomalous records are enough.
LeakRiskFacilitiesInclusive(rows) ==
    {f \in FacilitiesOf(AnomalyRows(rows)) :
        Len(FacilityRows(AnomalyRows(rows), f)) >= LeakRiskCount}

\* anomaly_data.groupby('facility').size(), then those > 5.
LeakRiskFacilities(rows) ==
    {f \in FacilitiesOf(AnomalyRows(rows)) :
        Len(FacilityRows(AnomalyRows(rows), f)) > LeakRiskCount}

\* Mutant of detect_potential_leaks: the probability follows the anomaly
\* count instead of the at-risk list.
detect_potential_leaks_any_anomaly(rows) ==
    [high_anomaly_count |-> Len(AnomalyRows(rows)),
     facilities_at_risk |-> LeakRiskFacilities(rows),
     leak_probability |-> IF Len(AnomalyRows(rows)) > 0 THEN "HIGH" ELSE "LOW",
     recommended_inspection |-> LeakRiskFacilities(rows)]

\* Mutant of detect_potential_leaks: every facility with an anomalous record
\* is recommended for inspection.
detect_potential_leaks_inspect_any(rows) ==
    [high_anomaly_count |-> Len(AnomalyRows(rows)),
     facilities_at_risk |-> LeakRiskFacilities(rows),
     leak_probability |-> IF LeakRiskFacilities(rows) # {} THEN "HIGH" ELSE "LOW",
     recommended_inspection |-> FacilitiesOf(AnomalyRows(rows))]

\* WaterAnalyzer._detect_potential_leaks
detect_potential_leaks(rows) ==
    [high_anomaly_count |-> Len(AnomalyRows(rows)),
     facilities_at_risk |-> LeakRiskFacilities(rows),
     leak_probability |-> IF LeakRiskFacilities(rows) # {} THEN "HIGH" ELSE "LOW",
     recommended_inspection |-> LeakRiskFacilities(rows)]

IssueReport(k, rows, thr100) ==
    IF k = "electricity" THEN detect_night_idle(rows, thr100)
    ELSE detect_potential_leaks(rows)

\* round((anomaly_count / len(self.data)) * 100, 2), in hundredths.
AnomalyPercentage(count, n) == Round2(100 * count, n)

\* The results dictionary analyze() returns on success.
Results(k, rows, thr100) ==
    [tag |-> "ok",
     total_consumption |-> Round2(SumSeq(Values(rows)), Unit),
     average_consumption |-> Round2(SumSeq(Values(rows)), Unit * Len(rows)),
     peak_consumption |-> Round2(SeriesMax(Values(rows)), Unit),
     night_consumption |-> Round2(SumSeq(Values(NightRows(rows))), Unit),
     anomalies_detected |-> CountTrue(Column(rows, "is_anomaly")),
     anomaly_threshold |-> Round2(thr100, 100 * Unit),
     consumption_trend |-> get_trend_direction(Values(rows)),
     facility_analysis |-> facility_wise_analysis(rows),
     issues |-> IssueReport(k, rows, thr100),
     anomaly_percentage |-> AnomalyPercentage(CountTrue(Column(rows, "is_anomaly")),
                                              Len(rows))]

ErrorResult == [tag |-> "error", error |-> "No data available"]
Raised == [tag |-> "raised", exception |-> "KeyError"]

(***************************************************************************)
(* analyze(): the three variables it assigns, as one record.               *)
(***************************************************************************)
\* Mutant of AnalyzeOutcome: a threshold computed by an earlier call is kept
\* and the records are flagged against it.
AnalyzeOutcomeCachedThreshold(k, d, thr, p) ==
    IF d = None \/ Len(d.rows) = 0
    THEN [data |-> d, threshold |-> thr, result |-> ErrorResult]
    ELSE LET fresh == detect_anomalies(d, p)
             flagged ==
                 IF fresh.raised \/ thr = None THEN fresh
                 ELSE [raised |-> FALSE,
                       data |-> Frame(fresh.data.cols,
                                      [i \in 1..Len(d.rows) |->
                                          [fresh.data.rows[i] EXCEPT
                                              !.is_anomaly =
                                                  AboveThreshold(d.rows[i].value, thr.x100)]]),
                       threshold |-> thr]
         IN  IF flagged.raised
             THEN [data |-> d, threshold |-> thr, result |-> Raised]
             ELSE LET night == identify_night_time_usage(flagged.data)
                  IN  IF night.raised \/ "facility" \notin night.data.cols
                      THEN [data |-> night.data, threshold |-> flagged.threshold,
                            result |-> Raised]
                      ELSE [data |-> night.data, threshold |-> flagged.threshold,
                            result |-> Results(k, night.data.rows,
                                               flagged.threshold.x100)]

\* Mutant of AnalyzeOutcome: only a missing table is refused; a table of
\* zero rows goes on into the pipeline and comes back flagged.
AnalyzeOutcomeNoneOnly(k, d, thr, p) ==
    IF d = None
    THEN [data |-> d, threshold |-> thr, result |-> ErrorResult]
    ELSE [data |-> Frame(d.cols \cup {"is_anomaly", "anomaly_severity"}, d.rows),
          threshold |-> NaN, result |-> Raised]

AnalyzeOutcome(k, d, thr, p) ==
    IF d = None \/ Len(d.rows) = 0
    THEN [data |-> d, threshold |-> thr, result |-> ErrorResult]
    ELSE LET flagged == detect_anomalies(d, p)
         IN  IF flagged.raised
             THEN [data |-> d, threshold |-> thr, result |-> Raised]
             ELSE LET night == identify_night_time_usage(flagged.data)
                  IN  IF night.raised \/ "facility" \notin night.data.cols
                      THEN [data |-> night.data, threshold |-> flagged.threshold,
                            result |-> Raised]
                      ELSE [data |-> night.data, threshold |-> flagged.threshold,
                            result |-> Results(k, night.data.rows,
                                               flagged.threshold.x100)]

\* analyze() gets past detect_anomalies: there is a table, it has rows and
\* the value column.
Flagging(d) == d # None /\ Len(d.rows) > 0 /\ ValueColumn \in d.cols

\* Mutant of CopyOf: the table itself is handed to detect_anomalies.
SameObject(d) == [table |-> d, same_object |-> TRUE]

\* self.data.copy(): an equal table that is another object.  detect_anomalies
\* and identify_night_time_usage write their columns into the object they
\* are given and return it.
CopyOf(d) == [table |-> d, same_object |-> FALSE]

analyze ==
    LET out == AnalyzeOutcome(kind, data, threshold, threshold_percentile)
        in_place == Flagging(data) /\ shared /\ CopyOf(data).same_object
    IN  /\ pc = "idle"
        /\ shared' = IF Flagging(data) THEN in_place ELSE shared
        /\ session_data' = IF in_place THEN out.data ELSE session_data
        /\ data' = out.data
        /\ threshold' = out.threshold
        /\ result' = out.result
        /\ last_call' = "analyze"
        /\ UNCHANGED <<kind, threshold_percentile, anomalies, pc, locals>>

\* Mutant of sort_values: the groups in ascending value order.
sort_values_ascending(rows, I) ==
    LET vals == {rows[i].value : i \in I}
        Rank(v) == Cardinality({w \in vals : w < v}) + 1
    IN  [k \in 1..Cardinality(vals) |-> {i \in I : Rank(rows[i].value) = k}]

\* sort_values(value column, ascending=False) of the records with the index
\* labels I.  The default sort (quicksort) is not stable: the records come
\* out by value, largest first, and records of equal value in an order the
\* build decides.  The outcome is given as far as it is decided: the k-th
\* entry is the set of labels carrying the k-th largest value, and every
\* arrangement the build can return lists the entries in this order.
sort_values(rows, I) ==
    LET vals == {rows[i].value : i \in I}
        Rank(v) == Cardinality({w \in vals : w > v}) + 1
    IN  [k \in 1..Cardinality(vals) |-> {i \in I : Rank(rows[i].value) = k}]

\* The index labels selected by self.data[self.data['is_anomaly']].
AnomalyIds(rows) == {i \in 1..Len(rows) : rows[i].is_anomaly}

\* get_anomalies_dataframe(): TypeError when self.data is None, KeyError when
\* the table has no is_anomaly column, else the flagged records, each under
\* its index label, sorted by value descending.
get_anomalies_dataframe ==
    /\ pc = "idle"
    /\ IF data = None
       THEN anomalies' = [tag |-> "raised", exception |-> "TypeError"]
       ELSE IF "is_anomaly" \notin data.cols
       THEN anomalies' = [tag |-> "raised", exception |-> "KeyError"]
       ELSE anomalies' = [tag |-> "frame", cols |-> data.cols,
                          rows |-> [i \in AnomalyIds(data.rows) |-> data.rows[i]],
                          order |-> sort_values(data.rows, AnomalyIds(data.rows))]
    /\ last_call' = "get_anomalies_dataframe"
    /\ UNCHANGED <<caller, kind, threshold_percentile, data, threshold, result, pc, locals>>

(***************************************************************************)
(* analyze() step by step.  pc is the position inside the call ("idle"     *)
(* outside it) and locals holds the local variables of the call: the        *)
(* statistics, the trend, the facility analysis, the issue report, and in   *)
(* ran the order in which they were computed.  analyze() computes the four  *)
(* in the order written; here, once both flags are attached, they are steps *)
(* that may be taken in any order, the order of the code among them.        *)
(***************************************************************************)
Consumers == {"stats", "trend", "facility", "issues"}

NoLocals ==
    [ran |-> << >>, stats |-> Unset, trend |-> Unset, facility |-> Unset,
     issues |-> Unset]

\* total, mean (a sum over a count), peak, night sum and anomaly count.
Stats(rows) ==
    [total |-> SumSeq(Values(rows)),
     mean |-> [num |-> SumSeq(Values(rows)), den |-> Len(rows)],
     peak |-> SeriesMax(Values(rows)),
     night |-> SumSeq(Values(NightRows(rows))),
     anomaly_count |-> CountTrue(Column(rows, "is_anomaly"))]

\* trend = get_trend_direction(self.data[value column]): self.data as it is
\* left and the value computed.
TrendStep(d) == [data |-> d, out |-> get_trend_direction(Values(d.rows))]

\* Mutant of FacilityStep: the per-facility selection is assigned to
\* self.data, which is left holding the records of one facility.
FacilityStepNarrowing(d) ==
    [data |-> Frame(d.cols, FacilityRows(d.rows, d.rows[Len(d.rows)].facility)),
     out |-> facility_wise_analysis(d.rows)]

\* self._facility_wise_analysis(): facility_data is a local selection.
FacilityStep(d) == [data |-> d, out |-> facility_wise_analysis(d.rows)]

\* self._detect_night_idle() / self._detect_potential_leaks().  The leak
\* report groups the flagged records by 'facility' and raises KeyError on a
\* table without that column; the night report does not read the column.
IssueStep(k, d, thr) ==
    IF k = "water" /\ "facility" \notin d.cols
    THEN [raised |-> TRUE, data |-> d, out |-> Unset]
    ELSE [raised |-> FALSE, data |-> d, out |-> IssueReport(k, d.rows, thr.x100)]

\* The results dictionary built from the local variables, len(self.data) and
\* self.threshold.
AssembleResults(loc, d, thr) ==
    [tag |-> "ok",
     total_consumption |-> Round2(loc.stats.total, Unit),
     average_consumption |-> Round2(loc.stats.mean.num, Unit * loc.stats.mean.den),
     peak_consumption |-> Round2(loc.stats.peak, Unit),
     night_consumption |-> Round2(loc.stats.night, Unit),
     anomalies_detected |-> loc.stats.anomaly_count,
     anomaly_threshold |-> Round2(thr.x100, 100 * Unit),
     consumption_trend |-> loc.trend,
     facility_analysis |-> loc.facility,
     issues |-> loc.issues,
     anomaly_percentage |-> AnomalyPercentage(loc.stats.anomaly_count, Len(d.rows))]

\* analyze() fails with KeyError: the call is over, what was assigned stays.
Raise ==
    /\ result' = Raised
    /\ last_call' = "analyze"
    /\ pc' = "idle"

\* The call and its guard on a missing or empty table.
analyze_call ==
    /\ pc = "idle"
    /\ IF data = None \/ Len(data.rows) = 0
       THEN /\ result' = ErrorResult
            /\ last_call' = "analyze"
            /\ UNCHANGED <<pc, locals>>
       ELSE /\ pc' = "detect"
            /\ locals' = NoLocals
            /\ UNCHANGED <<result, last_call>>
    /\ UNCHANGED <<caller, kind, threshold_percentile, data, threshold, anomalies>>

\* self.data, self.threshold = detect_anomalies(...)
analyze_detect ==
    /\ pc = "detect"
    /\ LET flagged == detect_anomalies(data, threshold_percentile)
       IN  IF flagged.raised
           THEN Raise /\ UNCHANGED <<data, threshold, caller>>
           ELSE /\ data' = flagged.data
                /\ threshold' = flagged.threshold
                /\ shared' = (shared /\ CopyOf(data).same_object)
                /\ session_data' = IF shared /\ CopyOf(data).same_object
                                   THEN flagged.data ELSE session_data
                /\ pc' = "night"
                /\ UNCHANGED <<result, last_call>>
    /\ UNCHANGED <<kind, threshold_percentile, anomalies, locals>>

\* self.data = identify_night_time_usage(self.data)
analyze_night ==
    /\ pc = "night"
    /\ LET night == identify_night_time_usage(data)
       IN  IF night.raised
           THEN Raise /\ UNCHANGED <<data, caller>>
           ELSE /\ data' = night.data
                /\ session_data' = IF shared THEN night.data ELSE session_data
                /\ pc' = "fanout"
                /\ UNCHANGED <<result, last_call, shared>>
    /\ UNCHANGED <<kind, threshold_percentile, threshold, anomalies, locals>>

\* A step of the fan-out that has not run yet in this call.
Pending(c) == pc = "fanout" /\ c \notin Range(locals.ran)

analyze_stats ==
    /\ Pending("stats")
    /\ locals' = [locals EXCEPT !.ran = Append(@, "stats"), !.stats = Stats(data.rows)]
    /\ UNCHANGED <<caller, kind, threshold_percentile, data, threshold, result, anomalies,
                   last_call, pc>>

analyze_trend ==
    /\ Pending("trend")
    /\ data' = TrendStep(data).data
    /\ locals' = [locals EXCEPT !.ran = Append(@, "trend"), !.trend = TrendStep(data).out]
    /\ UNCHANGED <<caller, kind, threshold_percentile, threshold, result, anomalies,
                   last_call, pc>>

analyze_facility ==
    /\ Pending("facility")
    /\ IF "facility" \notin data.cols
       THEN Raise /\ UNCHANGED <<data, locals>>
       ELSE /\ data' = FacilityStep(data).data
            /\ locals' = [locals EXCEPT !.ran = Append(@, "facility"),
                                        !.facility = FacilityStep(data).out]
            /\ UNCHANGED <<result, last_call, pc>>
    /\ UNCHANGED <<caller, kind, threshold_percentile, threshold, anomalies>>

analyze_issues ==
    /\ Pending("issues")
    /\ IF IssueStep(kind, data, threshold).raised
       THEN Raise /\ UNCHANGED <<data, locals>>
       ELSE /\ data' = IssueStep(kind, data, threshold).data
            /\ locals' = [locals EXCEPT !.ran = Append(@, "issues"),
                                        !.issues = IssueStep(kind, data, threshold).out]
            /\ UNCHANGED <<result, last_call, pc>>
    /\ UNCHANGED <<caller, kind, threshold_percentile, threshold, anomalies>>

\* results = {...}; return results
analyze_return ==
    /\ pc = "fanout"
    /\ Range(locals.ran) = Consumers
    /\ result' = AssembleResults(locals, data, threshold)
    /\ last_call' = "analyze"
    /\ pc' = "idle"
    /\ UNCHANGED <<caller, kind, threshold_percentile, data, threshold, anomalies, locals>>

(***************************************************************************)
(* Input tables.                                                           *)
(***************************************************************************)
SeqsUpTo(S, n) == UNION {[1..m -> S] : m \in 0..n}

\* Percentiles whose fraction p / 100 is exact in binary floating point.
Percentiles == {0, 25, 50, 75, 100}

\* Small tables: facility A with the values 0, 0.125 and 0.5 at a night and at
\* a day hour, facility B with 0.125 at night and 0.5 by day.
SmallRows ==
    {RawRow("A", v, 3, 0) : v \in {0, 1, 4}}
        \cup {RawRow("A", v, 12, 0) : v \in {1, 4}}
        \cup {RawRow("B", 1, 3, 0), RawRow("B", 4, 12, 0)}

SmallFrames == {Frame(RawColumns, rows) : rows \in SeqsUpTo(SmallRows, MaxRows)}

\* Tables that lack one required column.
BrokenFrames ==
    {Frame(RawColumns \ {c}, <<RawRow("A", 4, 3, 0), RawRow("B", 1, 12, 0)>>) :
        c \in RawColumns}

\* Tables of one or two rows over every hour of the day.
HourRows ==
    {RawRow(fv[1], fv[2], dh, 0) : fv \in {<<"A", 1>>, <<"B", 4>>}, dh \in 0..23}

HourFrames ==
    {Frame(RawColumns, <<r>>) : r \in HourRows}
        \cup {Frame(RawColumns, <<r1, r2>>) : r1 \in HourRows, r2 \in HourRows}

\* Series for the trend: one facility, values around a 5 percent step
\* (2.5 against 2.375, 2.625, 2.75) and a zero baseline.
TrendRows == {RawRow("A", v, 12, 0) : v \in {0, 19, 20, 21, 22}}

TrendFrames == {Frame(RawColumns, rows) : rows \in SeqsUpTo(TrendRows, MaxTrendLen)}

\* Larger tables, built of runs of equal rows: a run is a row and a length.
RunRows ==
    {RawRow("A", 9, 3, 0), RawRow("B", 9, 3, 0), RawRow("A", 9, 12, 0),
     RawRow("A", 1, 12, 0)}

Runs == {<<r, n>> : r \in RunRows, n \in {5, 6}}

RECURSIVE Expand(_)
Expand(runs) ==
    IF runs = << >> THEN << >>
    ELSE [i \in 1..runs[1][2] |-> runs[1][1]] \o Expand(Tail(runs))

RunFrames == {Frame(RawColumns, Expand(runs)) : runs \in SeqsUpTo(Runs, MaxBlocks)}

\* The end-to-end table: 100 records of one facility, 90 of value 100 at the
\* hour bh and 10 of value 500 at the night hour sh, the 10 placed after the
\* first a of the 90.
EndToEndRows(f, bh, sh, a) ==
    Expand(<<<<RawRow(f, 100 * Unit, bh, 0), a>>,
             <<RawRow(f, 500 * Unit, sh, 0), 10>>,
             <<RawRow(f, 100 * Unit, bh, 0), 90 - a>>>>)

EndToEndFrames ==
    {Frame(RawColumns, EndToEndRows(f, bh, sh, a)) :
        f \in Facilities, bh \in {3, 12}, sh \in NIGHT_TIME_HOURS, a \in {0, 45, 90}}

\* Tables of up to MaxStepRows records for the step by step analysis.
StepRows ==
    {RawRow("A", 1, 3, 0), RawRow("A", 4, 12, 0), RawRow("B", 4, 3, 0),
     RawRow("B", 0, 12, 0)}

StepFrames == {Frame(RawColumns, rows) : rows \in SeqsUpTo(StepRows, MaxStepRows)}

\* Tables for the row order: values 10 and 20 of two facilities, in every
\* order, and the series 10, 10, 10, 20, 20, 20 with its reverse.
OrderRows ==
    {RawRow("A", 10 * Unit, 12, 0), RawRow("A", 20 * Unit, 12, 0),
     RawRow("B", 20 * Unit, 3, 0), RawRow("B", 10 * Unit, 3, 0)}

OrderFrames ==
    {Frame(RawColumns, rows) : rows \in SeqsUpTo(OrderRows, MaxOrderRows)}
        \cup {Frame(RawColumns,
                    Expand(<<<<RawRow("A", 10 * Unit, 12, 0), 3>>,
                             <<RawRow("A", 20 * Unit, 12, 0), 3>>>>)),
              Frame(RawColumns,
                    Expand(<<<<RawRow("A", 20 * Unit, 12, 0), 3>>,
                             <<RawRow("A", 10 * Unit, 12, 0), 3>>>>))}

\* Tables assigned to analyzer.data by the dashboard (session state data).
\* The last one is a generated table: its 'date' is a date without a time of
\* day and it has an 'hour' column of its own.
SessionFrames ==
    {Frame(RawColumns, << >>),
     Frame(RawColumns, <<RawRow("A", 1, 3, 0), RawRow("B", 4, 12, 0)>>),
     Frame(RawColumns \cup {"hour"},
           <<RawRow("A", 1, 0, 14), RawRow("B", 4, 0, 2)>>)}

(***************************************************************************)
(* The analyzer: __init__, the assignment of analyzer.data, analyze().     *)
(***************************************************************************)
\* __init__: self.data = load_csv_data(csv_path), None when loading fails.
InitWith(frames, percentiles) ==
    /\ kind \in Kinds
    /\ threshold_percentile \in percentiles
    /\ data \in frames \cup {None}
    /\ threshold = None
    /\ result = None
    /\ anomalies = None
    /\ last_call = "__init__"
    /\ pc = "idle"
    /\ locals = NoLocals
    /\ session_data = None
    /\ shared = FALSE

Init == InitWith(SmallFrames \cup BrokenFrames, Percentiles)

\* analyzer.data = st.session_state.<resource>_data
SetData ==
    /\ pc = "idle"
    /\ \E f \in SessionFrames : data' = f /\ session_data' = f
    /\ shared' = TRUE
    /\ last_call' = "set_data"
    /\ UNCHANGED <<kind, threshold_percentile, threshold, result, anomalies, pc, locals>>

Next == analyze \/ SetData \/ get_anomalies_dataframe

Spec == Init /\ [][Next]_vars

\* The same analyzer over the other families of input tables.
InitHours == InitWith(HourFrames, {75})
SpecHours == InitHours /\ [][Next]_vars

InitTrend == InitWith(TrendFrames, {75})
SpecTrend == InitTrend /\ [][Next]_vars

InitRuns == InitWith(RunFrames, {0, 75})
SpecRuns == InitRuns /\ [][Next]_vars

InitEndToEnd == InitWith(EndToEndFrames, {75})
SpecEndToEnd == InitEndToEnd /\ [][Next]_vars

InitOrder == InitWith(OrderFrames, {50, 75})
SpecOrder == InitOrder /\ [][Next]_vars

\* The anomaly percentage of a table of n records of which count are
\* flagged, for table sizes beyond those of the tables above.
TableSizes == (1..8) \cup {19999, 20001, 40000}

anomaly_percentage ==
    /\ pc = "idle"
    /\ \E n \in TableSizes : \E count \in {0, n \div 2, n - 1} :
           result' = [tag |-> "percentage", records |-> n, anomaly_count |-> count,
                      anomaly_percentage |-> AnomalyPercentage(count, n)]
    /\ last_call' = "anomaly_percentage"
    /\ UNCHANGED <<kind, threshold_percentile, data, threshold, anomalies, pc, locals,
                   caller>>

\* The analyzer over small tables at every percentile, and the percentage
\* alone over large table sizes.
InitPercentage == InitWith(StepFrames, Percentiles)

NextPercentage == analyze \/ anomaly_percentage

SpecPercentage == InitPercentage /\ [][NextPercentage]_vars

\* The analyzer with analyze() taken step by step.
InitSteps == InitWith(StepFrames \cup BrokenFrames, {50, 75})

NextSteps ==
    \/ analyze_call
    \/ analyze_detect
    \/ analyze_night
    \/ analyze_stats
    \/ analyze_trend
    \/ analyze_facility
    \/ analyze_issues
    \/ analyze_return

SpecSteps == InitSteps /\ [][NextSteps]_vars

(***************************************************************************)
(* Properties.                                                             *)
(***************************************************************************)
\* analyze() has just returned its results dictionary.
Analyzed == last_call = "analyze" /\ result.tag = "ok"

Rows == data.rows
RowIds == 1..Len(data.rows)

\* C1: after a successful analyze() a record is flagged is_anomaly exactly
\* when its value is strictly greater than the stored threshold (a value equal
\* to it is not flagged), and that threshold is a p-th percentile of the whole
\* series: it lies within the series' range, and fewer than
\* n - (n - 1) p / 100 values lie strictly above it.
C1_FlagIffAboveThreshold ==
    Analyzed =>
        /\ threshold.tag = "num"
        /\ \A i \in RowIds :
              Rows[i].is_anomaly <=> (100 * Rows[i].value > threshold.x100)
        /\ \A i \in RowIds :
              100 * Rows[i].value = threshold.x100 => ~Rows[i].is_anomaly
        /\ \E i \in RowIds : 100 * Rows[i].value <= threshold.x100
        /\ \E i \in RowIds : 100 * Rows[i].value >= threshold.x100
        /\ 100 * Cardinality({i \in RowIds : 100 * Rows[i].value > threshold.x100})
              < 100 * Len(Rows) - (Len(Rows) - 1) * threshold_percentile

\* C1 witness: an analyzed table with a record exactly at the threshold (not
\* flagged) and a record above it (flagged).
C1_Witness ==
    /\ Analyzed
    /\ \E i \in RowIds : 100 * Rows[i].value = threshold.x100 /\ ~Rows[i].is_anomaly
    /\ \E i \in RowIds : Rows[i].is_anomaly

\* The value series is constant (stddev = 0: at least two values, all equal).
ConstantSeries ==
    Len(Rows) >= 2 /\ \A i \in RowIds : Rows[i].value = Rows[1].value

\* C2: on a constant series anomaly_severity is 0.0 for every record (each
\* value equals the mean) and is never NaN or infinite.
C2_ConstantSeriesSeverityZero ==
    (Analyzed /\ ConstantSeries) =>
        \A i \in RowIds :
            Rows[i].anomaly_severity.tag = "num" /\ Rows[i].anomaly_severity.sgn = 0

\* C3: analyze() on an analyzer whose data is None or has zero rows returns
\* the error object and runs no step: data and threshold are left as they
\* were.
C3_EmptyReturnsError ==
    [][(last_call' = "analyze" /\ (data = None \/ Len(data.rows) = 0))
          => (result' = ErrorResult /\ data' = data /\ threshold' = threshold)]_vars

\* C3 witness: analyze() has returned the error object for a table of zero
\* rows.
C3_Witness ==
    /\ last_call = "analyze"
    /\ result = ErrorResult
    /\ data # None
    /\ Len(data.rows) = 0

\* C4: is_night_time is true exactly for the hours 22, 23, 0, 1, 2, 3, 4, 5,
\* and two records with the same hour carry the same flag whatever their
\* facility and value.
C4_NightIffNightHour ==
    Analyzed =>
        /\ \A i \in RowIds :
              Rows[i].is_night_time <=> Rows[i].hour \in {22, 23, 0, 1, 2, 3, 4, 5}
        /\ \A i, j \in RowIds :
              Rows[i].hour = Rows[j].hour
                  => Rows[i].is_night_time = Rows[j].is_night_time

\* C4 witness: two night records of the same hour, of different facilities
\* and values.
C4_Witness ==
    /\ Analyzed
    /\ Len(Rows) = 2
    /\ Rows[1].hour = 5 /\ Rows[2].hour = 5
    /\ Rows[1].facility # Rows[2].facility
    /\ Rows[1].value # Rows[2].value
    /\ Rows[1].is_night_time /\ Rows[2].is_night_time

\* diff_percent of a series of at least two non-negative values is
\* TrendNum / TrendDen when the first-half mean is not 0 (TrendDen > 0).
TrendNum(s) ==
    100 * (SumSeq(SecondHalf(s)) * Len(FirstHalf(s))
              - SumSeq(FirstHalf(s)) * Len(SecondHalf(s)))
TrendDen(s) == SumSeq(FirstHalf(s)) * Len(SecondHalf(s))

\* C5: the trend label is 'insufficient_data' for fewer than 2 values;
\* otherwise 'increasing' exactly when diff_percent > 5, 'decreasing' exactly
\* when diff_percent < -5, and 'stable' in every other case, diff_percent
\* exactly 5 or -5 included.
C5_TrendLabel ==
    Analyzed =>
        LET s == Values(Rows)
            t == result.consumption_trend
            up == TrendDen(s) > 0 /\ TrendNum(s) > 5 * TrendDen(s)
            down == TrendDen(s) > 0 /\ TrendNum(s) < (0 - 5) * TrendDen(s)
        IN  IF Len(s) < 2 THEN t = "insufficient_data"
            ELSE /\ t = "increasing" <=> up
                 /\ t = "decreasing" <=> down
                 /\ t = "stable" <=> (~up /\ ~down)

\* C5 witness: a series whose diff_percent is exactly 5, labelled 'stable'.
C5_Witness ==
    /\ Analyzed
    /\ Len(Rows) >= 2
    /\ TrendDen(Values(Rows)) > 0
    /\ TrendNum(Values(Rows)) = 5 * TrendDen(Values(Rows))
    /\ result.consumption_trend = "stable"

\* C6: a series of at least 2 values whose first-half mean is 0 is labelled
\* 'stable' whatever the second half holds.
C6_ZeroBaselineStable ==
    (Analyzed /\ Len(Rows) >= 2 /\ SumSeq(FirstHalf(Values(Rows))) = 0)
        => result.consumption_trend = "stable"

\* C6 witness: a zero first half followed by a positive second half,
\* labelled 'stable'.
C6_Witness ==
    /\ Analyzed
    /\ Len(Rows) = 4
    /\ SumSeq(FirstHalf(Values(Rows))) = 0
    /\ \A i \in 3..4 : Rows[i].value > 0
    /\ result.consumption_trend = "stable"

\* Sum of the rollup totals (hundredths) over the facilities of a mapping.
RECURSIVE SumTotals(_, _)
SumTotals(fa, F) ==
    IF F = {} THEN 0
    ELSE LET f == CHOOSE x \in F : TRUE
         IN  fa[f].total + SumTotals(fa, F \ {f})

\* Sum of the values (eighths) of the rows with the indices I.
RECURSIVE SumValuesAt(_, _)
SumValuesAt(rows, I) ==
    IF I = {} THEN 0
    ELSE LET i == CHOOSE x \in I : TRUE
         IN  rows[i].value + SumValuesAt(rows, I \ {i})

RowsOf(f) == {i \in RowIds : Rows[i].facility = f}

Abs(x) == IF x < 0 THEN 0 - x ELSE x

\* C7 as stated: the sum over the facilities of the rollup total equals the
\* sum of the value column and the reported overall total.
C7_Conservation ==
    Analyzed =>
        LET fa == result.facility_analysis
        IN  /\ Unit * SumTotals(fa, DOMAIN fa) = 100 * SumValuesAt(Rows, RowIds)
            /\ SumTotals(fa, DOMAIN fa) = result.total_consumption

\* C7 amended: every rollup total and the reported overall total are rounded
\* to 2 decimals.  The sum of the rollup totals is within 0.005 per facility
\* of the sum of the value column, the reported total within 0.005 of it, and
\* the three are equal whenever every facility's sum is a whole number of
\* hundredths.
C7_ConservationRounded ==
    Analyzed =>
        LET fa == result.facility_analysis
            S == SumValuesAt(Rows, RowIds)
        IN  /\ 2 * Abs(Unit * SumTotals(fa, DOMAIN fa) - 100 * S)
                  <= Unit * Cardinality(DOMAIN fa)
            /\ 2 * Abs(Unit * result.total_consumption - 100 * S) <= Unit
            /\ (\A f \in DOMAIN fa : (100 * SumValuesAt(Rows, RowsOf(f))) % Unit = 0)
                  => /\ Unit * SumTotals(fa, DOMAIN fa) = 100 * S
                     /\ SumTotals(fa, DOMAIN fa) = result.total_consumption

\* C7 witness: two facilities whose rollup totals are both rounded (0.125 is
\* reported as 0.12), so that their sum is not the reported overall total.
C7_Witness ==
    /\ Analyzed
    /\ Cardinality(DOMAIN result.facility_analysis) = 2
    /\ \A f \in DOMAIN result.facility_analysis :
          (100 * SumValuesAt(Rows, RowsOf(f))) % Unit # 0
    /\ SumTotals(result.facility_analysis, DOMAIN result.facility_analysis)
          # result.total_consumption

\* C8: the rollup mapping has exactly the facilities that occur in a record
\* as its keys, and each rollup's total, average and anomaly count are those
\* of exactly that facility's records.
C8_RollupPerFacility ==
    Analyzed =>
        LET fa == result.facility_analysis
        IN  /\ DOMAIN fa = {Rows[i].facility : i \in RowIds}
            /\ \A f \in DOMAIN fa :
                  /\ fa[f].total = Round2(SumValuesAt(Rows, RowsOf(f)), Unit)
                  /\ fa[f].avg = Round2(SumValuesAt(Rows, RowsOf(f)),
                                        Unit * Cardinality(RowsOf(f)))
                  /\ fa[f].anomalies
                        = Cardinality({i \in RowsOf(f) : Rows[i].is_anomaly})

\* C8 witness: a table with records of facility A only: A is the only key,
\* and one of its three records is anomalous.
C8_Witness ==
    /\ Analyzed
    /\ Len(Rows) = 3
    /\ DOMAIN result.facility_analysis = {"A"}
    /\ result.facility_analysis["A"].anomalies = 1

\* Records that are night-time and above the threshold of the same call.
HighNightIds ==
    {i \in RowIds : Rows[i].is_night_time /\ 100 * Rows[i].value > threshold.x100}

\* C9: the night-idle issue_severity is 'HIGH' exactly when the count of
\* high night usage records is greater than 10, 'MEDIUM' exactly when it is
\* 6 to 10, and 'LOW' exactly when it is at most 5.
C9_NightIdleSeverity ==
    (Analyzed /\ kind = "electricity") =>
        LET c == result.issues.high_night_consumption_count
            sev == result.issues.issue_severity
        IN  /\ c = Cardinality(HighNightIds)
            /\ sev = "HIGH" <=> c > 10
            /\ sev = "MEDIUM" <=> c \in 6..10
            /\ sev = "LOW" <=> c <= 5

\* C9 witness: exactly 11 high night usage records, severity 'HIGH'.
C9_Witness ==
    /\ Analyzed
    /\ kind = "electricity"
    /\ Cardinality(HighNightIds) = 11
    /\ result.issues.issue_severity = "HIGH"

AnomaliesOf(f) == Cardinality({i \in RowsOf(f) : Rows[i].is_anomaly})

\* C10: a facility is in facilities_at_risk exactly when it has more than 5
\* anomalous records.
C10_LeakRiskFacilities ==
    (Analyzed /\ kind = "water") =>
        result.issues.facilities_at_risk = {f \in Facilities : AnomaliesOf(f) > 5}

\* C10 witness: a facility with exactly 6 anomalous records is listed and a
\* facility with exactly 5 is not.
C10_Witness ==
    /\ Analyzed
    /\ kind = "water"
    /\ AnomaliesOf("A") = 6 /\ "A" \in result.issues.facilities_at_risk
    /\ AnomaliesOf("B") = 5 /\ "B" \notin result.issues.facilities_at_risk

\* C11: in a water analysis result leak_probability is 'HIGH' exactly when
\* facilities_at_risk is non-empty and 'LOW' exactly when it is empty; a
\* table without an anomalous record yields 'LOW'.
C11_LeakProbability ==
    (Analyzed /\ kind = "water") =>
        LET lp == result.issues.leak_probability
            risk == result.issues.facilities_at_risk
        IN  /\ lp = "HIGH" <=> risk # {}
            /\ lp = "LOW" <=> risk = {}
            /\ (\A i \in RowIds : ~Rows[i].is_anomaly) => lp = "LOW"

\* C11 witness: anomalous records exist, yet no facility has more than 5 of
\* them: the list is empty and the probability is 'LOW'.
C11_Witness ==
    /\ Analyzed
    /\ kind = "water"
    /\ \E i \in RowIds : Rows[i].is_anomaly
    /\ result.issues.facilities_at_risk = {}
    /\ result.issues.leak_probability = "LOW"

\* The analyzed table is the end-to-end table: 100 records of one facility,
\* 90 of value 100 and 10 of value 500, the 10 at night hours.
EndToEndTable ==
    /\ Len(Rows) = 100
    /\ Cardinality({Rows[i].facility : i \in RowIds}) = 1
    /\ Cardinality({i \in RowIds : Rows[i].value = 100 * Unit}) = 90
    /\ Cardinality({i \in RowIds : Rows[i].value = 500 * Unit
                                      /\ Rows[i].hour \in {22, 23, 0, 1, 2, 3, 4, 5}}) = 10

\* C12 as stated: the electricity analysis of the end-to-end table at
\* percentile 75 yields anomaly count 10, threshold 100, night-idle count 10
\* and issue severity 'HIGH'.
C12_EndToEndHigh ==
    (Analyzed /\ kind = "electricity" /\ threshold_percentile = 75 /\ EndToEndTable) =>
        /\ result.anomalies_detected = 10
        /\ result.anomaly_threshold = 100 * 100
        /\ result.issues.high_night_consumption_count = 10
        /\ result.issues.issue_severity = "HIGH"

\* C12 amended: the same analysis yields anomaly count 10, threshold 100,
\* night-idle count 10 and issue severity 'MEDIUM' (10 is not greater than 10).
C12_EndToEndMedium ==
    (Analyzed /\ kind = "electricity" /\ threshold_percentile = 75 /\ EndToEndTable) =>
        /\ result.anomalies_detected = 10
        /\ result.anomaly_threshold = 100 * 100
        /\ threshold.x100 = 100 * 100 * Unit
        /\ result.issues.high_night_consumption_count = 10
        /\ result.issues.issue_severity = "MEDIUM"

\* C12 witness: the end-to-end table analyzed, its 90 base records at a night
\* hour as well, with 10 high night usage records.
C12_Witness ==
    /\ Analyzed
    /\ kind = "electricity"
    /\ EndToEndTable
    /\ \A i \in RowIds : Rows[i].is_night_time
    /\ result.issues.high_night_consumption_count = 10

\* C13: after a successful analyze(), get_anomalies_dataframe returns exactly
\* the records flagged is_anomaly (none unflagged, none missing, none twice,
\* as many as anomalies_detected), ordered by value non-increasing.
C13_AnomaliesFlaggedAndSorted ==
    (/\ last_call = "get_anomalies_dataframe"
     /\ result.tag = "ok"
     /\ data # None
     /\ "is_anomaly" \in data.cols) =>
        /\ anomalies.tag = "frame"
        /\ DOMAIN anomalies.rows = {i \in RowIds : Rows[i].is_anomaly}
        /\ Cardinality(DOMAIN anomalies.rows) = result.anomalies_detected
        /\ \A i \in DOMAIN anomalies.rows : anomalies.rows[i] = Rows[i]
        /\ UNION Range(anomalies.order) = DOMAIN anomalies.rows
        /\ \A j, k \in 1..Len(anomalies.order) :
               j < k => /\ anomalies.order[j] \cap anomalies.order[k] = {}
                        /\ \A a \in anomalies.order[j], b \in anomalies.order[k] :
                               anomalies.rows[a].value > anomalies.rows[b].value
        /\ \A k \in 1..Len(anomalies.order) :
               \A a, b \in anomalies.order[k] :
                   anomalies.rows[a].value = anomalies.rows[b].value

\* C13 witness: a table with an unflagged record and two flagged records of
\* different values stored in ascending order, returned in descending order.
C13_Witness ==
    /\ last_call = "get_anomalies_dataframe"
    /\ result.tag = "ok"
    /\ anomalies.tag = "frame"
    /\ Cardinality(DOMAIN anomalies.rows) = 2
    /\ Len(Rows) = 3
    /\ Len(anomalies.order) = 2
    /\ \E a \in anomalies.order[1], b \in anomalies.order[2] :
           a > b /\ anomalies.rows[a].value > anomalies.rows[b].value

\* C14: when the input table lacks a required column, analyze() fails before
\* any pipeline step has processed the data: after the failure the table
\* carries no anomaly or night-time flag, no threshold has been set and no
\* result is returned.
C14_SchemaErrorBeforeAnyStep ==
    (last_call = "analyze" /\ result.tag = "raised") =>
        /\ data.cols \subseteq RawColumns
        /\ threshold = None

\* C15: whenever analyze() returns a result for a non-empty table of
\* non-negative values, every numeric field is a well-defined number: no
\* anomaly_severity and no night consumption percentage is NaN or infinite
\* (the other figures of the result are numbers by construction).
C15_EveryNumberWellDefined ==
    (Analyzed /\ Len(Rows) >= 1) =>
        /\ \A i \in RowIds : Rows[i].anomaly_severity.tag = "num"
        /\ threshold.tag = "num"
        /\ kind = "electricity" => result.issues.night_consumption_percentage.tag = "num"

\* C16: analyze() called again right after a successful analyze(), on the
\* already flagged table, yields the same threshold, the same is_anomaly and
\* is_night_time flag of every record, and an equal result.
C16_RerunIdempotent ==
    [][(Analyzed /\ last_call' = "analyze") =>
          /\ threshold' = threshold
          /\ Len(data'.rows) = Len(data.rows)
          /\ \A i \in RowIds :
                /\ data'.rows[i].is_anomaly = data.rows[i].is_anomaly
                /\ data'.rows[i].is_night_time = data.rows[i].is_night_time
          /\ result' = result]_vars

\* C16 witness: analyze() has run twice on one table of the trend family (all
\* records of facility A, so the table was never replaced): the first run
\* attached the flags get_anomalies_dataframe then read, the second run is
\* the latest call; some record is flagged and some is not.
C16_Witness ==
    /\ Analyzed
    /\ Len(Rows) >= 3
    /\ \A i \in RowIds : Rows[i].facility = "A"
    /\ anomalies.tag = "frame"
    /\ DOMAIN anomalies.rows # {}
    /\ DOMAIN anomalies.rows \subseteq RowIds
    /\ \A i \in DOMAIN anomalies.rows : anomalies.rows[i] = Rows[i]
    /\ \E i \in RowIds : ~Rows[i].is_anomaly

\* The table d as it was assigned: its raw columns only, no flag attached.
RawTable(d) ==
    Frame(d.cols \cap RawColumns,
          [i \in 1..Len(d.rows) |->
              [d.rows[i] EXCEPT !.is_anomaly = FALSE, !.anomaly_severity = Unset,
                                !.is_night_time = FALSE]])

\* C17: whatever tables were assigned and analyzed before, what the latest
\* analyze() leaves is what a first analysis of the current table alone, at
\* the analyzer's percentile, gives: the same result and, when it succeeds,
\* the same threshold and the same flagged table.
C17_ResultOfCurrentTableOnly ==
    (last_call = "analyze") =>
        IF data = None THEN result = ErrorResult
        ELSE LET fresh == AnalyzeOutcome(kind, RawTable(data), None, threshold_percentile)
             IN  /\ result = fresh.result
                 /\ result.tag = "ok" => (data = fresh.data /\ threshold = fresh.threshold)

\* C17 witness: the session table (it has a record of facility B) has just
\* been analyzed, after an earlier table of the trend family (facility A,
\* values above the session table's) was analyzed and its flagged records
\* were fetched.
C17_Witness ==
    /\ Analyzed
    /\ \E i \in RowIds : Rows[i].facility = "B"
    /\ anomalies.tag = "frame"
    /\ \E i \in DOMAIN anomalies.rows :
           anomalies.rows[i].facility = "A" /\ anomalies.rows[i].value > 4
    /\ \E i \in RowIds : Rows[i].is_anomaly

\* C18: for n >= 2 values the first half is the first n div 2 values and the
\* second half the remaining n - n div 2 (contiguous, disjoint, covering the
\* series, the first the smaller for odd n), and the label is the one that
\* diff_percent of the means of exactly these two halves gives.
C18_HalvesAtMidpoint ==
    (Analyzed /\ Len(Rows) >= 2) =>
        LET n == Len(Rows)
            s == Values(Rows)
            H1 == 1..(n \div 2)
            H2 == (n \div 2 + 1)..n
            n1 == Cardinality(H1)
            n2 == Cardinality(H2)
            S1 == SumValuesAt(Rows, H1)
            S2 == SumValuesAt(Rows, H2)
            num == 100 * (S2 * n1 - S1 * n2)
            den == S1 * n2
            t == result.consumption_trend
        IN  /\ FirstHalf(s) = [i \in 1..n1 |-> s[i]]
            /\ SecondHalf(s) = [i \in 1..n2 |-> s[n1 + i]]
            /\ n1 = n \div 2 /\ n2 = n - n \div 2 /\ n1 <= n2
            /\ H1 \cap H2 = {} /\ H1 \cup H2 = 1..n
            /\ t = "increasing" <=> (den > 0 /\ num > 5 * den)
            /\ t = "decreasing" <=> (den > 0 /\ num < (0 - 5) * den)

\* C18 witness: three values 2.5, 2.75, 2.75: the first half is the single
\* value 2.5, the second half has mean 2.75, 10 percent above: 'increasing'
\* (with the middle value in the first half it would be 'stable').
C18_Witness ==
    /\ Analyzed
    /\ Len(Rows) = 3
    /\ Rows[1].value = 20 /\ Rows[2].value = 22 /\ Rows[3].value = 22
    /\ result.consumption_trend = "increasing"

\* C19: inside one analyze() call the anomaly flags and the threshold are
\* attached first, the night-time flags next, and the statistics, the trend,
\* the facility analysis and the issue report are computed only after that:
\* none of them has run before the fan-out, and throughout the fan-out every
\* record carries both flags (is_anomaly against a set threshold,
\* is_night_time by its hour).
C19_FlagsBeforeFanOut ==
    /\ pc \in {"detect", "night"} => locals.ran = << >>
    /\ pc = "night" => ("is_anomaly" \in data.cols /\ threshold.tag = "num")
    /\ pc = "fanout" =>
          /\ {"is_anomaly", "is_night_time"} \subseteq data.cols
          /\ threshold.tag = "num"
          /\ \A i \in RowIds :
                /\ Rows[i].is_anomaly = AboveThreshold(Rows[i].value, threshold.x100)
                /\ Rows[i].is_night_time = IsNightHour(Rows[i].date_hour)

\* C19 witness: both flags are attached and no consumer has run yet; one
\* record is anomalous, one is a night record.
C19_Witness ==
    /\ pc = "fanout"
    /\ locals.ran = << >>
    /\ Len(Rows) = 2
    /\ \E i \in RowIds : Rows[i].is_anomaly
    /\ \E i \in RowIds : Rows[i].is_night_time

\* C20: the trend, the facility analysis and the issue report only read the
\* flagged table and the threshold: in whatever order they (and the
\* statistics) run, each is what the flagged table as the write phase left it
\* gives, the table and the threshold stay as the write phase left them, and
\* the call ends as the analysis taken in the code's order ends: with the
\* same result, or with the same KeyError when the table has no facility
\* column (raised by the facility analysis or by the leak report, whichever
\* runs first).
C20_FanOutOrderIndependent ==
    /\ pc = "fanout" =>
          LET fresh == AnalyzeOutcome(kind, RawTable(data), None, threshold_percentile)
          IN  /\ data = fresh.data
              /\ threshold = fresh.threshold
              /\ "trend" \in Range(locals.ran) =>
                     locals.trend = get_trend_direction(Values(Rows))
              /\ "facility" \in Range(locals.ran) =>
                     locals.facility = facility_wise_analysis(Rows)
              /\ "issues" \in Range(locals.ran) =>
                     locals.issues = IssueReport(kind, Rows, threshold.x100)
    /\ (pc = "idle" /\ last_call = "analyze" /\ locals.ran # << >>) =>
          LET fresh == AnalyzeOutcome(kind, RawTable(data), None, threshold_percentile)
          IN  /\ result = fresh.result
              /\ data = fresh.data
              /\ threshold = fresh.threshold

\* C20 witness: a call has returned in which the issue report was computed
\* first, then the facility analysis, then the trend, then the statistics,
\* on a table of two facilities with an anomalous record.
C20_Witness ==
    /\ pc = "idle"
    /\ Analyzed
    /\ locals.ran = <<"issues", "facility", "trend", "stats">>
    /\ Len(Rows) = 2
    /\ Rows[1].facility # Rows[2].facility
    /\ \E i \in RowIds : Rows[i].is_anomaly

\* The arrangements of the row positions 1..n, and a table's rows rearranged.
Perms(n) == {f \in [1..n -> 1..n] : \A i, j \in 1..n : i # j => f[i] # f[j]}

Permute(rows, f) == [i \in 1..Len(rows) |-> rows[f[i]]]

\* C21: the threshold, each record's is_anomaly flag, the anomaly count and
\* the facility rollups do not depend on the row order: the analysis of the
\* same records in any other order gives the same threshold, the same flag
\* for each record, the same count and the same rollups.
C21_RowOrderInvariant ==
    Analyzed =>
        \A f \in Perms(Len(Rows)) :
            LET other == AnalyzeOutcome(kind,
                                        Frame(RawColumns, Permute(RawTable(data).rows, f)),
                                        None, threshold_percentile)
            IN  /\ other.result.tag = "ok"
                /\ other.threshold = threshold
                /\ \A i \in RowIds : other.data.rows[i].is_anomaly = Rows[f[i]].is_anomaly
                /\ other.result.anomalies_detected = result.anomalies_detected
                /\ other.result.anomaly_threshold = result.anomaly_threshold
                /\ other.result.facility_analysis = result.facility_analysis

\* C21 witness: three records of two facilities, stored with the largest
\* value first, one of them flagged and the threshold between the values.
C21_Witness ==
    /\ Analyzed
    /\ Len(Rows) = 3
    /\ Rows[1].value > Rows[3].value
    /\ Rows[1].facility # Rows[2].facility
    /\ Rows[1].is_anomaly /\ ~Rows[2].is_anomaly
    /\ threshold.x100 > 100 * Rows[3].value

\* The label of a series of at least two values taken in the order given:
\* the sums of its first n div 2 and of its other positions compared.
OrderLabel(s) ==
    LET n == Len(s)
        n1 == n \div 2
        n2 == n - n1
        S1 == SumFromTo(s, 1, n1)
        S2 == SumFromTo(s, n1 + 1, n)
        num == 100 * (S2 * n1 - S1 * n2)
        den == S1 * n2
    IN  IF den > 0 /\ num > 5 * den THEN "increasing"
        ELSE IF den > 0 /\ num < (0 - 5) * den THEN "decreasing"
        ELSE "stable"

Reverse(s) == [i \in 1..Len(s) |-> s[Len(s) + 1 - i]]

\* The analysis of the same records stored in the reverse order.
Reversed ==
    AnalyzeOutcome(kind, Frame(RawColumns, Reverse(RawTable(data).rows)), None,
                   threshold_percentile)

TenTenTenTwenty ==
    <<10 * Unit, 10 * Unit, 10 * Unit, 20 * Unit, 20 * Unit, 20 * Unit>>

\* C22: the trend label is that of the value column in the stored row order,
\* no sort before the split, so it depends on the order: the reversed table
\* gets the label of the reversed series, and 10, 10, 10, 20, 20, 20 is
\* 'increasing' while its reverse is 'decreasing'.
C22_TrendInRowOrder ==
    (Analyzed /\ Len(Rows) >= 2) =>
        /\ result.consumption_trend = OrderLabel(Values(Rows))
        /\ Reversed.result.consumption_trend = OrderLabel(Reverse(Values(Rows)))
        /\ Values(Rows) = TenTenTenTwenty =>
              /\ result.consumption_trend = "increasing"
              /\ Reversed.result.consumption_trend = "decreasing"

\* C22 witness: the table 20, 20, 20, 10, 10, 10 analyzed and labelled
\* 'decreasing'; the same records in the reverse order are 'increasing'.
C22_Witness ==
    /\ Analyzed
    /\ Values(Rows) = Reverse(TenTenTenTwenty)
    /\ result.consumption_trend = "decreasing"
    /\ Reversed.result.consumption_trend = "increasing"

\* C23: the hour of every record is the hour of its 'date', whatever 'hour'
\* column the table came with, and the night-time flag is that of this hour;
\* when no 'date' has a time of day every hour is 0, every record is
\* night-time and the night-time total is the overall total.
C23_HourFromDate ==
    Analyzed =>
        /\ "hour" \in data.cols
        /\ \A i \in RowIds :
              /\ Rows[i].hour = Rows[i].date_hour
              /\ Rows[i].is_night_time = IsNightHour(Rows[i].date_hour)
        /\ (\A i \in RowIds : Rows[i].date_hour = 0) =>
              /\ \A i \in RowIds : Rows[i].hour = 0 /\ Rows[i].is_night_time
              /\ result.night_consumption = result.total_consumption

\* C23 witness: the caller's table has dates without a time of day and an
\* 'hour' column saying 14 for a record; analyzed, that record has hour 0
\* and is night-time, and the night-time total is the total.
C23_Witness ==
    /\ Analyzed
    /\ session_data # None
    /\ "hour" \in session_data.cols
    /\ Len(Rows) = Len(session_data.rows)
    /\ \E i \in RowIds :
          /\ session_data.rows[i].hour = 14
          /\ session_data.rows[i].date_hour = 0
          /\ Rows[i].hour = 0
          /\ Rows[i].is_night_time
    /\ result.night_consumption = result.total_consumption
    /\ result.total_consumption > 0

\* C28: analyze() leaves the caller's table as it was supplied: one of the
\* tables as they are assigned, with no is_anomaly, anomaly_severity or
\* is_night_time column and its own 'hour' column, if any, as supplied; once
\* analyze() has flagged a table, self.data is a copy and no longer the
\* caller's object.
C28_CallerTableUntouched ==
    /\ session_data # None =>
          /\ session_data \in SessionFrames
          /\ session_data.cols \cap {"is_anomaly", "anomaly_severity", "is_night_time"} = {}
          /\ shared => data = session_data
    /\ (data # None /\ "is_anomaly" \in data.cols) => ~shared

\* C28 witness: the caller's table with its own 'hour' column was assigned
\* and analyzed: the analyzer's table is flagged and has hour 0 where the
\* caller's table still says 14.
C28_Witness ==
    /\ Analyzed
    /\ session_data # None
    /\ ~shared
    /\ Len(Rows) = Len(session_data.rows)
    /\ \E i \in RowIds : Rows[i].is_anomaly /\ ~session_data.rows[i].is_anomaly
    /\ \E i \in RowIds : Rows[i].hour = 0 /\ session_data.rows[i].hour = 14
    /\ {"is_anomaly", "is_night_time"} \subseteq data.cols

\* C24 as stated: high_night_consumption_count is the number of night-time
\* records strictly above the threshold (the records both night-time and
\* anomalous, never more than anomalies_detected), and
\* night_consumption_percentage equals 100 * night-time sum / sum of all
\* values, within 0..100, whenever the total is positive.
C24_NightIdleReportExact ==
    (Analyzed /\ kind = "electricity") =>
        LET night == {i \in RowIds : Rows[i].is_night_time}
            total == SumValuesAt(Rows, RowIds)
            pct == result.issues.night_consumption_percentage
            count == result.issues.high_night_consumption_count
        IN  /\ count = Cardinality({i \in night : 100 * Rows[i].value > threshold.x100})
            /\ count = Cardinality({i \in night : Rows[i].is_anomaly})
            /\ count <= result.anomalies_detected
            /\ total > 0 =>
                  /\ pct.tag = "num"
                  /\ pct.h * total = 100 * 100 * SumValuesAt(Rows, night)
                  /\ 0 <= pct.h /\ pct.h <= 100 * 100

\* C24 amended: the same count, and night_consumption_percentage is
\* 100 * night-time sum / sum of all values rounded to 2 decimals, within
\* 0..100 when the total is positive.
C24_NightIdleReport ==
    (Analyzed /\ kind = "electricity") =>
        LET night == {i \in RowIds : Rows[i].is_night_time}
            total == SumValuesAt(Rows, RowIds)
            pct == result.issues.night_consumption_percentage
            count == result.issues.high_night_consumption_count
        IN  /\ count = Cardinality({i \in night : 100 * Rows[i].value > threshold.x100})
            /\ count = Cardinality({i \in night : Rows[i].is_anomaly})
            /\ count <= result.anomalies_detected
            /\ total > 0 =>
                  /\ pct.tag = "num"
                  /\ pct.h = Round2(100 * SumValuesAt(Rows, night), total)
                  /\ 0 <= pct.h /\ pct.h <= 100 * 100

\* C24 witness: a night-time record above the threshold, a night-time record
\* at or below it and an anomalous day record: the count is 1 of 2 anomalies
\* and the percentage, strictly between 0 and 100, is not a whole number of
\* hundredths before rounding.
C24_Witness ==
    /\ Analyzed
    /\ kind = "electricity"
    /\ result.issues.high_night_consumption_count = 1
    /\ result.anomalies_detected = 2
    /\ \E i \in RowIds : Rows[i].is_night_time /\ ~Rows[i].is_anomaly
    /\ result.issues.night_consumption_percentage.tag = "num"
    /\ result.issues.night_consumption_percentage.h > 0
    /\ result.issues.night_consumption_percentage.h < 100 * 100
    /\ (100 * 100 * SumValuesAt(Rows, {i \in RowIds : Rows[i].is_night_time}))
           % SumValuesAt(Rows, RowIds) # 0

\* The records holding the minimum value of the table.
MinRows == {i \in RowIds : \A j \in RowIds : Rows[i].value <= Rows[j].value}

\* The percentage has just been computed for a table size and a count of
\* flagged records below it.
PercentageOfSome ==
    /\ last_call = "anomaly_percentage"
    /\ result.anomaly_count < result.records

\* C25 as stated: in every analyzed non-empty table no record holding the
\* minimum value is flagged, so anomalies_detected is below the record count
\* and anomaly_percentage is strictly below 100 (for every table size, when
\* a record is not flagged); at percentile 100 no record is flagged.
C25_SomeRecordUnflaggedBelow100 ==
    /\ (Analyzed /\ Len(Rows) >= 1) =>
          /\ \A i \in MinRows : ~Rows[i].is_anomaly
          /\ result.anomalies_detected < Len(Rows)
          /\ result.anomaly_percentage < 100 * 100
          /\ threshold_percentile = 100 => result.anomalies_detected = 0
    /\ PercentageOfSome => result.anomaly_percentage < 100 * 100

\* C25 amended: the same, but anomaly_percentage, rounded to 2 decimals, is
\* at most 100 and strictly below 100 for tables of fewer than 20000 records.
C25_SomeRecordUnflagged ==
    /\ (Analyzed /\ Len(Rows) >= 1) =>
          /\ \A i \in MinRows : ~Rows[i].is_anomaly
          /\ \E i \in RowIds : ~Rows[i].is_anomaly
          /\ result.anomalies_detected < Len(Rows)
          /\ result.anomaly_percentage < 100 * 100
          /\ threshold_percentile = 100 =>
                (result.anomalies_detected = 0 /\ \A i \in RowIds : ~Rows[i].is_anomaly)
    /\ PercentageOfSome =>
          /\ result.anomaly_percentage <= 100 * 100
          /\ result.records < 20000 => result.anomaly_percentage < 100 * 100

\* C25 witness: at percentile 0 every record but the one holding the minimum
\* is flagged.
C25_Witness ==
    /\ Analyzed
    /\ threshold_percentile = 0
    /\ Len(Rows) = 2
    /\ result.anomalies_detected = 1
    /\ result.anomaly_percentage = 50 * 100
    /\ \E i \in MinRows : ~Rows[i].is_anomaly

\* Sum over the facilities F of the rollup anomaly counts, and of the numbers
\* of records of each facility.
RECURSIVE SumAnomalies(_, _)
SumAnomalies(fa, F) ==
    IF F = {} THEN 0
    ELSE LET f == CHOOSE x \in F : TRUE
         IN  fa[f].anomalies + SumAnomalies(fa, F \ {f})

RECURSIVE SumRecords(_)
SumRecords(F) ==
    IF F = {} THEN 0
    ELSE LET f == CHOOSE x \in F : TRUE
         IN  Cardinality(RowsOf(f)) + SumRecords(F \ {f})

\* C26: in every successful result the rollup anomaly counts of all
\* facilities add up to anomalies_detected, and the records of the facilities
\* that have a rollup add up to the table size: every record belongs to
\* exactly one facility with a rollup.
C26_RollupCountsAddUp ==
    Analyzed =>
        LET fa == result.facility_analysis
        IN  /\ SumAnomalies(fa, DOMAIN fa) = result.anomalies_detected
            /\ SumRecords(DOMAIN fa) = Len(Rows)
            /\ \A i \in RowIds : Rows[i].facility \in DOMAIN fa
            /\ \A f \in DOMAIN fa :
                   fa[f].anomalies = Cardinality({i \in RowsOf(f) : Rows[i].is_anomaly})

\* C26 witness: two facilities, each with an anomalous record, and a third
\* record that is not anomalous.
C26_Witness ==
    /\ Analyzed
    /\ Len(Rows) = 3
    /\ DOMAIN result.facility_analysis = {"A", "B"}
    /\ result.facility_analysis["A"].anomalies = 1
    /\ result.facility_analysis["B"].anomalies = 1
    /\ result.anomalies_detected = 2

\* C27: in every successful water result the leak report agrees with the
\* rest of the result: high_anomaly_count is anomalies_detected,
\* recommended_inspection is facilities_at_risk, and the facilities at risk
\* are exactly those whose facility_analysis entry has anomalies > 5.
C27_LeakReportConsistent ==
    (Analyzed /\ kind = "water") =>
        LET fa == result.facility_analysis
            leaks == result.issues
        IN  /\ leaks.high_anomaly_count = result.anomalies_detected
            /\ leaks.recommended_inspection = leaks.facilities_at_risk
            /\ leaks.facilities_at_risk = {f \in DOMAIN fa : fa[f].anomalies > 5}

\* C27 witness: one facility with 6 anomalous records, at risk, and another
\* with 5, not at risk.
C27_Witness ==
    /\ Analyzed
    /\ kind = "water"
    /\ \E f, g \in DOMAIN result.facility_analysis :
          /\ result.facility_analysis[f].anomalies = 6
          /\ result.facility_analysis[g].anomalies = 5
          /\ result.issues.facilities_at_risk = {f}
          /\ result.issues.recommended_inspection = {f}
    /\ result.issues.high_anomaly_count = 11

\* C29: an analyze() call that does not return a successful result (the
\* error object, or a KeyError for a missing column) leaves the analyzer as
\* it was: data and threshold are unchanged, and no table carrying anomaly
\* flags without night-time flags is stored.
C29_FailedAnalyzeLeavesState ==
    [][(last_call' = "analyze" /\ result'.tag # "ok") =>
          /\ data' = data
          /\ threshold' = threshold
          /\ data' # None =>
                ("is_anomaly" \in data'.cols => "is_night_time" \in data'.cols)]_vars

\* C30: get_anomalies_dataframe returns records only when the current table
\* has been flagged by a successful analyze(): the latest analyze() returned
\* a result and the table is the flagged table of that analysis.
C30_AnomaliesOnlyAfterSuccess ==
    (last_call = "get_anomalies_dataframe" /\ anomalies.tag = "frame") =>
        /\ result.tag = "ok"
        /\ data # None
        /\ {"is_anomaly", "is_night_time"} \subseteq data.cols
        /\ AnalyzeOutcome(kind, RawTable(data), None, threshold_percentile).data = data

====
